---------------------------- MODULE Spec2Model ----------------------------
(***************************************************************************)
(* Model of the two pipelines of the repository:                           *)
(*   collect.py         - resolve an author, page through the works, emit  *)
(*                        one JSON document;                               *)
(*   compare_themes.py  - load two theme documents, compute the Jaccard    *)
(*                        overlap, rank shared and distinctive subjects,   *)
(*                        write the CSV tables and the report.             *)
(* Python strings on which the code computes (strip, regex, split, sort)   *)
(* are sequences of one-character strings; opaque strings are TLA+ strings.*)
(* An optional JSON field is a record [has, v].                            *)
(***************************************************************************)
EXTENDS Integers, Sequences, FiniteSets, TLC

VARIABLES
    \* ---- collect.py
    pc,            \* position of collect.main
    query,         \* args.author
    max_pages,     \* args.max_pages
    page_size,     \* args.page_size
    search_docs,   \* what the catalog's author search holds for the query
    calls,         \* every request issued so far, in order
    responses,     \* the response to each request, in order
    best,          \* index in the search result of the hit max() picked (0: none)
    author_key,    \* key returned by resolve_author
    author_name,   \* name returned by resolve_author
    all_entries,   \* fetch_works: all_entries
    offset,        \* fetch_works: offset
    page_no,       \* fetch_works: iterations of the for loop started so far
    out,           \* the document written to stdout ([has |-> FALSE]: nothing)
    \* ---- compare_themes.py
    cpc,           \* position of compare_themes.main
    theme1,        \* a1: first loaded theme document
    theme2,        \* a2: second loaded theme document
    top,           \* args.top
    c1, c2,        \* to_map(a1), to_map(a2)
    n1, n2,        \* normalize(c1), normalize(c2): each value a fraction <<num, den>>
    jac,           \* jaccard(keys1, keys2) as a fraction <<num, den>>
    shared,        \* the shared list
    diff1, diff2,  \* the distinctive lists
    rows_shared,   \* subjects of the data rows of shared.csv
    rows_d1,       \* subjects of the data rows of distinctive_author1.csv
    rows_d2,       \* subjects of the data rows of distinctive_author2.csv
    console,       \* the three console previews
    summary        \* the "counts" object of compare_report.json

collectVars == <<pc, query, max_pages, page_size, search_docs, calls, responses,
                 best, author_key, author_name, all_entries, offset, page_no, out>>
compareVars == <<cpc, theme1, theme2, top, c1, c2, n1, n2, jac, shared, diff1, diff2,
                 rows_shared, rows_d1, rows_d2, console, summary>>
vars == <<collectVars, compareVars>>

-----------------------------------------------------------------------------
(* Bounds of the model *)
MaxQueryLen == 5
MaxHits == 3
MaxWorkCount == 1
MaxPages == 3
MaxPageLen == 1
MaxCount == 2

(* Program constants *)
DefaultPageSize == 100
CsvFloor == 100

-----------------------------------------------------------------------------
(* Generic helpers *)
Min(a, b) == IF a <= b THEN a ELSE b
Max(a, b) == IF a >= b THEN a ELSE b

SeqsUpTo(S, n) == UNION {[1..k -> S] : k \in 0..n}

Range(s) == {s[i] : i \in 1..Len(s)}

Some(x) == [has |-> TRUE, v |-> x]
NoneSeq == [has |-> FALSE, v |-> <<>>]
NoneInt == [has |-> FALSE, v |-> 0]
NoneStr == [has |-> FALSE, v |-> ""]

RECURSIVE Concat(_)
Concat(ss) == IF ss = <<>> THEN <<>> ELSE Head(ss) \o Concat(Tail(ss))

-----------------------------------------------------------------------------
(* Python string operations on character sequences *)

WhiteSpace == {" "}
Digits == {"0", "1", "2", "3", "4", "5", "6", "7", "8", "9"}

\* code points, for the lexicographic order of sorted()
CharCode(ch) ==
    CASE ch = " " -> 32
      [] ch = "/" -> 47
      [] ch \in Digits -> 48 + (CHOOSE d \in 0..9 : <<"0", "1", "2", "3", "4", "5", "6", "7", "8", "9">>[d + 1] = ch)
      [] ch = "A" -> 65
      [] ch = "L" -> 76
      [] ch = "N" -> 78
      [] ch = "O" -> 79
      [] ch = "a" -> 97
      [] ch = "b" -> 98
      [] OTHER -> 127

RECURSIVE LStrip(_)
LStrip(s) == IF s # <<>> /\ Head(s) \in WhiteSpace THEN LStrip(Tail(s)) ELSE s

RECURSIVE RStrip(_)
RStrip(s) ==
    IF s # <<>> /\ s[Len(s)] \in WhiteSpace THEN RStrip(SubSeq(s, 1, Len(s) - 1)) ELSE s

\* str.strip()
Strip(s) == RStrip(LStrip(s))

\* a < b for Python strings
StrLess(a, b) ==
    \E k \in 0..Min(Len(a), Len(b)) :
        /\ \A i \in 1..k : a[i] = b[i]
        /\ \/ k = Len(a) /\ k < Len(b)
           \/ k < Len(a) /\ k < Len(b) /\ CharCode(a[k + 1]) < CharCode(b[k + 1])

\* sorted(set of strings)
RECURSIVE SortedStrings(_)
SortedStrings(S) ==
    IF S = {} THEN <<>>
    ELSE LET m == CHOOSE x \in S : \A y \in S : y = x \/ StrLess(x, y)
         IN <<m>> \o SortedStrings(S \ {m})


-----------------------------------------------------------------------------
(* collect.py : is_author_key *)

\* the mutant: re.match (a prefix match) in place of re.fullmatch
is_author_key_prefix(s) ==
    LET t == Strip(s)
    IN \E n \in 4..Len(t) :
          /\ t[1] = "O" /\ t[2] = "L" /\ t[n] = "A"
          /\ \A i \in 3..(n - 1) : t[i] \in Digits

\* bool(re.fullmatch(r"OL\d+A", s.strip()))
is_author_key(s) ==
    LET t == Strip(s)
    IN /\ Len(t) >= 4
       /\ t[1] = "O" /\ t[2] = "L" /\ t[Len(t)] = "A"
       /\ \A i \in 3..(Len(t) - 1) : t[i] \in Digits

-----------------------------------------------------------------------------
(* collect.py : pick_best_author *)

\* d.get("work_count", 0)
WorkCountOf(d) == IF d.work_count.has THEN d.work_count.v ELSE 0

\* the mutant: a scan that replaces the best on >=, so the last maximum wins
RECURSIVE MaxScanLast(_, _, _)
MaxScanLast(hitlist, i, b) ==
    IF i > Len(hitlist) THEN b
    ELSE MaxScanLast(hitlist, i + 1,
                     IF WorkCountOf(hitlist[i]) >= WorkCountOf(hitlist[b]) THEN i ELSE b)

PyMaxIndexLast(hitlist) == MaxScanLast(hitlist, 2, 1)

\* max(iterable, key=...): one pass, the running best replaced on a strictly
\* greater key only
RECURSIVE MaxScan(_, _, _)
MaxScan(hitlist, i, b) ==
    IF i > Len(hitlist) THEN b
    ELSE MaxScan(hitlist, i + 1,
                 IF WorkCountOf(hitlist[i]) > WorkCountOf(hitlist[b]) THEN i ELSE b)

\* index of max(hitlist, key=lambda d: d.get("work_count", 0))
PyMaxIndex(hitlist) == MaxScan(hitlist, 2, 1)

\* truthiness of d.get(field): present and not the empty string
Truthy(o) == o.has /\ o.v # <<>>

KeyPrefix == <<"/", "a", "u", "t", "h", "o", "r", "s", "/">>

StartsWith(s, p) == Len(s) >= Len(p) /\ SubSeq(s, 1, Len(p)) = p

\* s.split("/")[-1]
LastSegment(s) ==
    LET slashes == {i \in 1..Len(s) : s[i] = "/"}
        last == IF slashes = {} THEN 0
                ELSE CHOOSE i \in slashes : \A j \in slashes : j <= i
    IN SubSeq(s, last + 1, Len(s))

\* pick_best_author for a non-empty hitlist: the index picked and the pair returned
pick_best_author(hitlist) ==
    LET b == PyMaxIndex(hitlist)
        d == hitlist[b]
        key == IF Truthy(d.key) THEN d.key.v
               ELSE IF Truthy(d.id) THEN d.id.v ELSE <<>>
    IN [best |-> b,
        key  |-> IF StartsWith(key, KeyPrefix) THEN LastSegment(key) ELSE key,
        name |-> IF Truthy(d.name) THEN d.name.v ELSE <<>>]

-----------------------------------------------------------------------------
(* collect.py : the subjects of one catalog entry *)

LabelFields == <<"subjects", "subject_places", "subject_times", "subject_people">>

\* a value of a label field: a string, or something that is not a string
StrVal(s) == [t |-> "str", v |-> s]
IntVal == [t |-> "int", v |-> <<>>]

\* e.get(field) or []
FieldVals(e, field) == IF e[field].has THEN e[field].v ELSE <<>>

\* the set built by the loops over the four fields
SubjectSet(e) ==
    UNION {{Strip(x.v) : x \in {y \in Range(FieldVals(e, LabelFields[f])) : y.t = "str"}}
             : f \in 1..Len(LabelFields)}

\* the record appended to all_entries
WorkRecord(e) ==
    [key |-> e.key,
     title |-> e.title,
     subjects |-> SortedStrings(SubjectSet(e)),
     first_publish_year |-> e.first_publish_year]

\* the records appended for one page, in entry order
PageRecords(entries) == [i \in 1..Len(entries) |-> WorkRecord(entries[i])]

-----------------------------------------------------------------------------
(* The catalog: the inputs the collector may meet *)

QueryAlphabet == {"O", "L", "1", "A", " "}
AllQueries == SeqsUpTo(QueryAlphabet, MaxQueryLen)
KeyQuery == <<" ", "O", "L", "1", "1", "A">>
NameQuery == <<"A", " ", "L">>
SampleQueries == {<<"O", "L", "1", "A">>, KeyQuery, NameQuery}

HitProfiles ==
    {[key |-> Some(KeyPrefix \o <<"O", "L", "1", "A">>), id |-> NoneSeq, name |-> Some(<<"N">>)],
     [key |-> NoneSeq, id |-> Some(<<"O", "L", "2", "A">>), name |-> NoneSeq],
     [key |-> Some(<<>>), id |-> NoneSeq, name |-> Some(<<>>)]}
WorkCounts == {NoneInt} \cup {Some(n) : n \in 0..MaxWorkCount}
Hits == {[work_count |-> w, key |-> p.key, id |-> p.id, name |-> p.name] :
            w \in WorkCounts, p \in HitProfiles}
HitLists == SeqsUpTo(Hits, MaxHits)

HitA == [work_count |-> Some(1), key |-> Some(KeyPrefix \o <<"O", "L", "1", "A">>),
         id |-> NoneSeq, name |-> Some(<<"N">>)]
HitB == [work_count |-> NoneInt, key |-> NoneSeq, id |-> Some(<<"O", "L", "2", "A">>),
         name |-> NoneSeq]
SampleDocs == {<<>>, <<HitA>>, <<HitB, HitA>>}

\* the name field of an author record: absent, or a string
AuthorRecordNames == {NoneSeq, Some(<<"N">>)}

EntryA ==
    [key |-> Some("OL1W"), title |-> Some("T1"), first_publish_year |-> Some(1920),
     subjects |-> Some(<<StrVal(<<" ", "a">>), IntVal, StrVal(<<" ">>)>>),
     subject_places |-> NoneSeq,
     subject_times |-> Some(<<>>),
     subject_people |-> Some(<<StrVal(<<"b", " ">>), StrVal(<<"a">>)>>)]
EntryB ==
    [key |-> NoneStr, title |-> NoneStr, first_publish_year |-> NoneInt,
     subjects |-> Some(<<StrVal(<<"b">>)>>),
     subject_places |-> Some(<<StrVal(<<"a", " ", "b">>)>>),
     subject_times |-> NoneSeq,
     subject_people |-> Some(<<StrVal(<<"b">>), StrVal(<<"a", "b">>)>>)]
CatalogEntries == {EntryA, EntryB}
\* every page of up to MaxPageLen entries, and one page of two entries
Pages == SeqsUpTo(CatalogEntries, MaxPageLen) \cup {<<EntryA, EntryB>>}
NonEmptyPages == Pages \ {<<>>}

PageSizes == {1, DefaultPageSize}

NoDoc == [has |-> FALSE,
          v |-> [author_key |-> <<>>, author_name |-> <<>>, total_works |-> 0, works |-> <<>>]]

Call(endpoint, off, lim) == [endpoint |-> endpoint, offset |-> off, limit |-> lim]
Response(ok, entries) == [ok |-> ok, entries |-> entries]

-----------------------------------------------------------------------------
(* collect.py : resolve_author *)

\* lines 30-35, the author fetch succeeds; nm is the record's name field
ResolveDirectOk ==
    /\ pc = "start"
    /\ is_author_key(query)
    /\ \E nm \in AuthorRecordNames :
          author_name' = IF nm.has THEN nm.v ELSE query
    /\ author_key' = query
    /\ calls' = Append(calls, Call("author", 0, 0))
    /\ responses' = Append(responses, Response(TRUE, <<>>))
    /\ pc' = "fetching"
    /\ UNCHANGED <<query, max_pages, page_size, search_docs, best, all_entries,
                   offset, page_no, out>>
    /\ UNCHANGED compareVars

\* lines 30-33, raise_for_status() raises
ResolveDirectFail ==
    /\ pc = "start"
    /\ is_author_key(query)
    /\ calls' = Append(calls, Call("author", 0, 0))
    /\ responses' = Append(responses, Response(FALSE, <<>>))
    /\ pc' = "failed"
    /\ UNCHANGED <<query, max_pages, page_size, search_docs, best, author_key,
                   author_name, all_entries, offset, page_no, out>>
    /\ UNCHANGED compareVars

\* lines 37-43, the search succeeds with at least one hit
ResolveSearchOk ==
    /\ pc = "start"
    /\ ~is_author_key(query)
    /\ search_docs # <<>>
    /\ LET r == pick_best_author(search_docs)
       IN /\ best' = r.best
          /\ author_key' = r.key
          /\ author_name' = IF r.name = <<>> THEN query ELSE r.name
    /\ calls' = Append(calls, Call("search", 0, 0))
    /\ responses' = Append(responses, Response(TRUE, <<>>))
    /\ pc' = "fetching"
    /\ UNCHANGED <<query, max_pages, page_size, search_docs, all_entries,
                   offset, page_no, out>>
    /\ UNCHANGED compareVars

\* lines 37-40 and 20-21, the search succeeds with no hit: SystemExit
ResolveSearchNone ==
    /\ pc = "start"
    /\ ~is_author_key(query)
    /\ search_docs = <<>>
    /\ calls' = Append(calls, Call("search", 0, 0))
    /\ responses' = Append(responses, Response(TRUE, <<>>))
    /\ pc' = "failed"
    /\ UNCHANGED <<query, max_pages, page_size, search_docs, best, author_key,
                   author_name, all_entries, offset, page_no, out>>
    /\ UNCHANGED compareVars

\* lines 37-38, raise_for_status() raises
ResolveSearchFail ==
    /\ pc = "start"
    /\ ~is_author_key(query)
    /\ calls' = Append(calls, Call("search", 0, 0))
    /\ responses' = Append(responses, Response(FALSE, <<>>))
    /\ pc' = "failed"
    /\ UNCHANGED <<query, max_pages, page_size, search_docs, best, author_key,
                   author_name, all_entries, offset, page_no, out>>
    /\ UNCHANGED compareVars

-----------------------------------------------------------------------------
(* collect.py : fetch_works and the end of main *)

\* one iteration whose page holds entries: lines 49-70
FetchPageEntries ==
    /\ pc = "fetching"
    /\ page_no < max_pages
    /\ \E page \in NonEmptyPages :
          /\ responses' = Append(responses, Response(TRUE, page))
          /\ all_entries' = all_entries \o PageRecords(page)
    /\ calls' = Append(calls, Call("works", offset, page_size))
    /\ offset' = offset + page_size
    /\ page_no' = page_no + 1
    /\ UNCHANGED <<pc, query, max_pages, page_size, search_docs, best, author_key,
                   author_name, out>>
    /\ UNCHANGED compareVars

\* the mutant: the empty page does not end the loop (no break)
FetchPageEmptyNoBreak ==
    /\ pc = "fetching"
    /\ page_no < max_pages
    /\ calls' = Append(calls, Call("works", offset, page_size))
    /\ responses' = Append(responses, Response(TRUE, <<>>))
    /\ page_no' = page_no + 1
    /\ offset' = offset + page_size
    /\ UNCHANGED <<pc, query, max_pages, page_size, search_docs, best, author_key,
                   author_name, all_entries, out>>
    /\ UNCHANGED compareVars

\* one iteration whose page holds no entry: lines 49-54 and the return
FetchPageEmpty ==
    /\ pc = "fetching"
    /\ page_no < max_pages
    /\ calls' = Append(calls, Call("works", offset, page_size))
    /\ responses' = Append(responses, Response(TRUE, <<>>))
    /\ page_no' = page_no + 1
    /\ pc' = "fetched"
    /\ UNCHANGED <<query, max_pages, page_size, search_docs, best, author_key,
                   author_name, all_entries, offset, out>>
    /\ UNCHANGED compareVars

\* the mutant: the failed request is swallowed and ends the loop like an empty page
FetchPageFailSwallowed ==
    /\ pc = "fetching"
    /\ page_no < max_pages
    /\ calls' = Append(calls, Call("works", offset, page_size))
    /\ responses' = Append(responses, Response(FALSE, <<>>))
    /\ page_no' = page_no + 1
    /\ pc' = "fetched"
    /\ UNCHANGED <<query, max_pages, page_size, search_docs, best, author_key,
                   author_name, all_entries, offset, out>>
    /\ UNCHANGED compareVars

\* one iteration whose request fails: lines 49-50, raise_for_status() raises
FetchPageFail ==
    /\ pc = "fetching"
    /\ page_no < max_pages
    /\ calls' = Append(calls, Call("works", offset, page_size))
    /\ responses' = Append(responses, Response(FALSE, <<>>))
    /\ page_no' = page_no + 1
    /\ pc' = "failed"
    /\ UNCHANGED <<query, max_pages, page_size, search_docs, best, author_key,
                   author_name, all_entries, offset, out>>
    /\ UNCHANGED compareVars

\* range(max_pages) is exhausted: line 48 and the return
FetchExhausted ==
    /\ pc = "fetching"
    /\ page_no >= max_pages
    /\ pc' = "fetched"
    /\ UNCHANGED <<query, max_pages, page_size, search_docs, calls, responses, best,
                   author_key, author_name, all_entries, offset, page_no, out>>
    /\ UNCHANGED compareVars

\* main, lines 84-90
Emit ==
    /\ pc = "fetched"
    /\ out' = Some([author_key |-> author_key, author_name |-> author_name,
                    total_works |-> Len(all_entries), works |-> all_entries])
    /\ pc' = "done"
    /\ UNCHANGED <<query, max_pages, page_size, search_docs, calls, responses, best,
                   author_key, author_name, all_entries, offset, page_no>>
    /\ UNCHANGED compareVars

-----------------------------------------------------------------------------
(* compare_themes.py : to_map, normalize, jaccard *)

EmptyMap == [k \in {} |-> 0]

\* t["subject"] or t["count"] raises KeyError for some entry of the document
to_map_raises(theme_json) ==
    /\ theme_json.themes.has
    /\ \E i \in 1..Len(theme_json.themes.v) :
          \/ ~theme_json.themes.v[i].subject.has
          \/ ~theme_json.themes.v[i].count.has

\* {t["subject"]: int(t["count"]) for t in theme_json.get("themes", [])}:
\* a later entry of a subject replaces an earlier one
to_map(theme_json) ==
    IF ~theme_json.themes.has THEN EmptyMap
    ELSE LET ts == theme_json.themes.v
             lastOf(k) == CHOOSE i \in 1..Len(ts) :
                             /\ ts[i].subject.v = k
                             /\ \A j \in (i + 1)..Len(ts) : ts[j].subject.v # k
         IN [k \in {ts[i].subject.v : i \in 1..Len(ts)} |-> ts[lastOf(k)].count.v]

\* counts.get(k, 0)
Get(counts, k) == IF k \in DOMAIN counts THEN counts[k] ELSE 0

RECURSIVE SumOver(_, _)
SumOver(counts, S) ==
    IF S = {} THEN 0
    ELSE LET k == CHOOSE x \in S : TRUE IN counts[k] + SumOver(counts, S \ {k})

\* s of normalize: sum(counts.values()) or 1
Total(counts) ==
    LET t == SumOver(counts, DOMAIN counts) IN IF t = 0 THEN 1 ELSE t

\* a frequency is the fraction <<numerator, denominator>>, denominator > 0
Zero == <<0, 1>>

\* normalize, lines 26-28
normalize(counts) ==
    LET s == Total(counts) IN [k \in DOMAIN counts |-> <<counts[k], s>>]

\* n.get(k, 0)
Freq(n, k) == IF k \in DOMAIN n THEN n[k] ELSE Zero
FracAdd(a, b) == <<a[1] * b[2] + b[1] * a[2], a[2] * b[2]>>
FracSub(a, b) == <<a[1] * b[2] - b[1] * a[2], a[2] * b[2]>>
FracLess(a, b) == a[1] * b[2] < b[1] * a[2]
FracEq(a, b) == a[1] * b[2] = b[1] * a[2]

\* the mutant: the both-empty case is not special
jaccard_noguard(set1, set2) ==
    <<Cardinality(set1 \cap set2), Max(1, Cardinality(set1 \cup set2))>>

\* jaccard, lines 12-15
jaccard(set1, set2) ==
    IF set1 = {} /\ set2 = {} THEN <<1, 1>>
    ELSE <<Cardinality(set1 \cap set2), Max(1, Cardinality(set1 \cup set2))>>

-----------------------------------------------------------------------------
(* compare_themes.py : sorted(..., reverse=True) and slices *)

Perms(S) == {p \in [1..Cardinality(S) -> S] : \A i, j \in DOMAIN p : p[i] = p[j] => i = j}

MaxId(S) == IF S = {} THEN 0 ELSE CHOOSE m \in S : \A x \in S : x <= m
Ascending(S) == SelectSeq([i \in 1..MaxId(S) |-> i], LAMBDA x : x \in S)
Reverse(s) == [i \in 1..Len(s) |-> s[Len(s) + 1 - i]]

\* The orders in which a set of subjects may be iterated. Python leaves the order
\* open: every order of a small set; of a larger set two orders stand for all.
SmallSet == 3
IterOrders(S) ==
    IF Cardinality(S) <= SmallSet THEN Perms(S)
    ELSE {Ascending(S), Reverse(Ascending(S))}

\* sorted(seq, key=..., reverse=True) on a key that is one frequency: the sort is
\* stable, equal keys keep the order of seq
RECURSIVE StableSortDesc(_, _)
StableSortDesc(seq, key) ==
    IF seq = <<>> THEN <<>>
    ELSE LET hi == CHOOSE i \in 1..Len(seq) :
                      \A j \in 1..Len(seq) : ~FracLess(key[seq[i]], key[seq[j]])
             isTop(x) == FracEq(key[x], key[seq[hi]])
             notTop(x) == ~FracEq(key[x], key[seq[hi]])
         IN SelectSeq(seq, isTop) \o StableSortDesc(SelectSeq(seq, notTop), key)

\* sorted(S, key=..., reverse=True) on a key that is a sum or a difference of two
\* frequencies. The keys are floats: two keys that are equal as fractions may
\* differ in the last bit, so subjects with equal exact keys come in any order.
DescOrders(S, key) ==
    {p \in Perms(S) : \A i, j \in DOMAIN p : i < j => ~FracLess(key[p[i]], key[p[j]])}

\* seq[:n]
PySlice(seq, n) ==
    IF n >= 0 THEN SubSeq(seq, 1, Min(n, Len(seq)))
    ELSE SubSeq(seq, 1, Max(Len(seq) + n, 0))

-----------------------------------------------------------------------------
(* compare_themes.py : the ranked lists and the tables *)

\* mutants of the distinctive list
DistinctiveSharedFirst(exclusive, sharedRanked) == sharedRanked \o exclusive
DistinctiveExclusiveOnly(exclusive, sharedRanked) == exclusive

\* line 70 (and 71): the exclusive subjects, then the shared ones re-ranked
Distinctive(exclusive, sharedRanked) == exclusive \o sharedRanked

\* the mutant: the table is cut like the console, at args.top
CsvLimitTop(t) == t

\* max(args.top, 100), lines 74 and 79
CsvLimit(t) == Max(t, CsvFloor)

\* the data rows of a table: subject, own count, other's count
Rows(list, own, other) ==
    [i \in 1..Len(list) |-> <<list[i], Get(own, list[i]), Get(other, list[i])>>]

-----------------------------------------------------------------------------
(* The theme documents the comparator may be given *)

Subjects == {1, 2, 3}
CountMaps == UNION {[S -> 0..MaxCount] : S \in SUBSET Subjects}

ThemeEntry(k, n) == [subject |-> Some(k), count |-> Some(n)]
DocOf(counts) ==
    LET ks == Ascending(DOMAIN counts)
    IN [themes |-> Some([i \in 1..Len(ks) |-> ThemeEntry(ks[i], counts[ks[i]])])]

NoThemesDoc == [themes |-> NoneSeq]
NoCountDoc == [themes |-> Some(<<ThemeEntry(1, 1), [subject |-> Some(2), count |-> NoneInt]>>)]
NoSubjectDoc == [themes |-> Some(<<[subject |-> NoneInt, count |-> Some(1)]>>)]
RepeatDoc == [themes |-> Some(<<ThemeEntry(1, 1), ThemeEntry(2, 1), ThemeEntry(1, 2)>>)]
SmallDocs == {DocOf(m) : m \in CountMaps}
                \cup {NoThemesDoc, NoCountDoc, NoSubjectDoc, RepeatDoc}

\* a document with more subjects than the floor of the table limit
LargeN == CsvFloor + 1
LargeDoc == [themes |-> Some([k \in 1..LargeN |-> ThemeEntry(k, k % (MaxCount + 1))])]

\* the documents a large one is compared with
LargePartners == {NoThemesDoc, RepeatDoc, DocOf([k \in Subjects |-> MaxCount])}

DocPairs == (SmallDocs \X SmallDocs) \cup ({LargeDoc} \X LargePartners)
               \cup (LargePartners \X {LargeDoc})

Tops == {-1, 0, 2, CsvFloor + 1}

-----------------------------------------------------------------------------
(* compare_themes.py : main *)

keys1 == DOMAIN c1
keys2 == DOMAIN c2

\* lines 42-59, both documents map
LoadThemes ==
    /\ cpc = "start"
    /\ ~to_map_raises(theme1) /\ ~to_map_raises(theme2)
    /\ c1' = to_map(theme1)
    /\ c2' = to_map(theme2)
    /\ n1' = normalize(to_map(theme1))
    /\ n2' = normalize(to_map(theme2))
    /\ jac' = jaccard(DOMAIN to_map(theme1), DOMAIN to_map(theme2))
    /\ cpc' = "loaded"
    /\ UNCHANGED <<theme1, theme2, top, shared, diff1, diff2, rows_shared, rows_d1,
                   rows_d2, console, summary>>
    /\ UNCHANGED collectVars

\* lines 45-46, to_map raises KeyError and main ends
LoadKeyError ==
    /\ cpc = "start"
    /\ to_map_raises(theme1) \/ to_map_raises(theme2)
    /\ cpc' = "KeyError"
    /\ UNCHANGED <<theme1, theme2, top, c1, c2, n1, n2, jac, shared, diff1, diff2,
                   rows_shared, rows_d1, rows_d2, console, summary>>
    /\ UNCHANGED collectVars

\* lines 63, 70 and 71
Rank ==
    /\ cpc = "loaded"
    /\ LET both == keys1 \cap keys2
           sum == [k \in both |-> FracAdd(Freq(n1, k), Freq(n2, k))]
           gap1 == [k \in both |-> FracSub(Freq(n1, k), Freq(n2, k))]
           gap2 == [k \in both |-> FracSub(Freq(n2, k), Freq(n1, k))]
       IN \E sh \in DescOrders(both, sum), s1 \in DescOrders(both, gap1),
             s2 \in DescOrders(both, gap2),
             e1 \in IterOrders(keys1 \ keys2), e2 \in IterOrders(keys2 \ keys1) :
             /\ shared' = sh
             /\ diff1' = Distinctive(StableSortDesc(e1, n1), s1)
             /\ diff2' = Distinctive(StableSortDesc(e2, n2), s2)
    /\ cpc' = "ranked"
    /\ UNCHANGED <<theme1, theme2, top, c1, c2, n1, n2, jac, rows_shared, rows_d1,
                   rows_d2, console, summary>>
    /\ UNCHANGED collectVars

\* lines 64-67, 73-81, 84-94 and 97-105
Report ==
    /\ cpc = "ranked"
    /\ rows_shared' = Rows(shared, c1, c2)
    /\ rows_d1' = Rows(PySlice(diff1, CsvLimit(top)), c1, c2)
    /\ rows_d2' = Rows(PySlice(diff2, CsvLimit(top)), c2, c1)
    /\ console' = [shared |-> PySlice(shared, top), d1 |-> PySlice(diff1, top),
                   d2 |-> PySlice(diff2, top)]
    /\ summary' = [a1_subjects |-> Cardinality(keys1),
                   a2_subjects |-> Cardinality(keys2),
                   shared |-> Len(shared)]
    /\ cpc' = "done"
    /\ UNCHANGED <<theme1, theme2, top, c1, c2, n1, n2, jac, shared, diff1, diff2>>
    /\ UNCHANGED collectVars

-----------------------------------------------------------------------------
(* Specifications *)

CollectIdle ==
    /\ pc = "idle"
    /\ query = <<>> /\ max_pages = 0 /\ page_size = 1 /\ search_docs = <<>>
    /\ calls = <<>> /\ responses = <<>> /\ best = 0
    /\ author_key = <<>> /\ author_name = <<>>
    /\ all_entries = <<>> /\ offset = 0 /\ page_no = 0 /\ out = NoDoc

CompareIdle ==
    /\ cpc = "idle"
    /\ theme1 = NoThemesDoc /\ theme2 = NoThemesDoc /\ top = 0
    /\ c1 = EmptyMap /\ c2 = EmptyMap /\ n1 = EmptyMap /\ n2 = EmptyMap
    /\ jac = Zero
    /\ shared = <<>> /\ diff1 = <<>> /\ diff2 = <<>>
    /\ rows_shared = <<>> /\ rows_d1 = <<>> /\ rows_d2 = <<>>
    /\ console = [shared |-> <<>>, d1 |-> <<>>, d2 |-> <<>>]
    /\ summary = [a1_subjects |-> 0, a2_subjects |-> 0, shared |-> 0]

\* the state of collect.main before resolve_author is called
CollectStart ==
    /\ pc = "start"
    /\ calls = <<>> /\ responses = <<>> /\ best = 0
    /\ author_key = <<>> /\ author_name = <<>>
    /\ all_entries = <<>> /\ offset = 0 /\ page_no = 0 /\ out = NoDoc

\* resolve_author alone: every query with a few search results, and a few queries
\* with every search result
InitResolve ==
    /\ \/ query \in AllQueries /\ search_docs \in SampleDocs
       \/ query \in SampleQueries /\ search_docs \in HitLists
    /\ max_pages = 0 /\ page_size = 1
    /\ CollectStart
    /\ CompareIdle

Resolve ==
    \/ ResolveDirectOk
    \/ ResolveDirectFail
    \/ ResolveSearchOk
    \/ ResolveSearchNone
    \/ ResolveSearchFail

SpecResolve == InitResolve /\ [][Resolve]_vars

\* the whole collector
InitCollect ==
    /\ \/ query = KeyQuery /\ search_docs = <<>>
       \/ query = NameQuery /\ search_docs \in SampleDocs
    /\ max_pages \in 0..MaxPages
    /\ page_size \in PageSizes
    /\ CollectStart
    /\ CompareIdle

NextCollect ==
    \/ Resolve
    \/ FetchPageEntries
    \/ FetchPageEmpty
    \/ FetchPageFail
    \/ FetchExhausted
    \/ Emit

SpecCollect == InitCollect /\ [][NextCollect]_vars

\* the comparator
InitCompare ==
    /\ \E p \in DocPairs : theme1 = p[1] /\ theme2 = p[2]
    /\ top \in Tops
    /\ cpc = "start"
    /\ c1 = EmptyMap /\ c2 = EmptyMap /\ n1 = EmptyMap /\ n2 = EmptyMap
    /\ jac = Zero
    /\ shared = <<>> /\ diff1 = <<>> /\ diff2 = <<>>
    /\ rows_shared = <<>> /\ rows_d1 = <<>> /\ rows_d2 = <<>>
    /\ console = [shared |-> <<>>, d1 |-> <<>>, d2 |-> <<>>]
    /\ summary = [a1_subjects |-> 0, a2_subjects |-> 0, shared |-> 0]
    /\ CollectIdle

NextCompare ==
    \/ LoadThemes
    \/ LoadKeyError
    \/ Rank
    \/ Report

SpecCompare == InitCompare /\ [][NextCompare]_vars

-----------------------------------------------------------------------------
(* Properties of the collector *)

\* the page requests of fetch_works and their responses: everything after the one
\* resolution call
WorksCalls == SubSeq(calls, 2, Len(calls))
WorksResponses == SubSeq(responses, 2, Len(responses))
Returned == pc \in {"fetched", "done"}

\* C1: fetch_works stops at the first page with zero entries or after max_pages
\* requests. At most max_pages page requests are issued, the i-th (from 0) at
\* offset i * page_size; no request follows an empty page, so k non-empty pages and
\* an empty one make exactly k+1 requests; without an empty page the function
\* returns only after max_pages requests; and what it returns is the records of
\* the non-empty pages, in page order and entry order.
C1_Pagination ==
    LET empties == {i \in 1..Len(WorksResponses) :
                      WorksResponses[i].ok /\ WorksResponses[i].entries = <<>>}
    IN /\ Len(WorksCalls) <= max_pages
       /\ \A i \in 1..Len(WorksCalls) :
             /\ WorksCalls[i].endpoint = "works"
             /\ WorksCalls[i].offset = (i - 1) * page_size
       /\ \A i \in empties : i = Len(WorksCalls) /\ Returned
       /\ (Returned /\ empties = {}) => Len(WorksCalls) = max_pages
       /\ Returned =>
             all_entries = Concat([i \in 1..Len(WorksResponses) |->
                                     PageRecords(WorksResponses[i].entries)])

\* two non-empty pages, then an empty one: three requests, the works of two pages
C1_Witness ==
    /\ pc = "done"
    /\ Len(WorksResponses) = 3
    /\ WorksResponses[1].entries # <<>> /\ WorksResponses[2].entries # <<>>
    /\ WorksResponses[3].ok /\ WorksResponses[3].entries = <<>>
    /\ page_size = DefaultPageSize
    /\ Len(all_entries) = Len(WorksResponses[1].entries) + Len(WorksResponses[2].entries)

\* the query has the catalog-key shape: blanks, "OL", one or more digits, "A", blanks
KeyShaped(q) ==
    \E i, j \in 1..Len(q) :
        /\ j >= i + 3
        /\ \A k \in 1..(i - 1) : q[k] = " "
        /\ \A k \in (j + 1)..Len(q) : q[k] = " "
        /\ q[i] = "O" /\ q[i + 1] = "L" /\ q[j] = "A"
        /\ \A k \in (i + 2)..(j - 1) : q[k] \in Digits

\* C2: resolve_author makes exactly one network call: the author fetch and no
\* search when the query has the key shape, otherwise the search and no fetch.
C2_OneResolutionCall ==
    /\ pc = "start" => calls = <<>>
    /\ pc # "start" =>
          /\ Cardinality({i \in 1..Len(calls) : calls[i].endpoint \in {"author", "search"}}) = 1
          /\ calls[1].endpoint = IF KeyShaped(query) THEN "author" ELSE "search"

\* a key between blanks has been resolved by the author fetch
C2_Witness ==
    /\ pc = "fetching"
    /\ query = <<" ", "O", "L", "1", "A">>
    /\ calls = <<Call("author", 0, 0)>>

\* C3: the hit pick_best_author selects has the maximum declared work count of the
\* list (a missing count is 0) and every earlier hit has a smaller one.
C3_FirstMaximum ==
    best # 0 =>
        /\ best \in 1..Len(search_docs)
        /\ \A j \in 1..Len(search_docs) :
              /\ WorkCountOf(search_docs[j]) <= WorkCountOf(search_docs[best])
              /\ j < best => WorkCountOf(search_docs[j]) < WorkCountOf(search_docs[best])

\* three hits, the maximum shared by the second and the third, the second picked
C3_Witness ==
    /\ best = 2
    /\ Len(search_docs) = 3
    /\ ~search_docs[1].work_count.has
    /\ WorkCountOf(search_docs[3]) = WorkCountOf(search_docs[2])

\* C4: a failure aborts the run with no output. When a request was answered
\* with a non-success response, or the search found no candidate, the run has
\* failed, that request is the last one issued, and no document is emitted.
C4_AbortNoOutput ==
    LET failedAt == {i \in 1..Len(responses) : ~responses[i].ok}
        noHit == /\ Len(calls) >= 1
                 /\ calls[1].endpoint = "search"
                 /\ responses[1].ok
                 /\ search_docs = <<>>
    IN /\ (failedAt # {} \/ noHit) => (pc = "failed" /\ ~out.has)
       /\ \A i \in failedAt : i = Len(calls)
       /\ noHit => Len(calls) = 1
       /\ pc = "failed" => ~out.has

\* a page request fails after two pages were collected
C4_Witness ==
    /\ pc = "failed"
    /\ Len(calls) = 4
    /\ all_entries # <<>>
    /\ ~responses[4].ok
    /\ ~out.has

\* C6: every subject label of every record of all_entries is non-empty and has
\* no leading or trailing whitespace.
C6_LabelsNonEmptyStripped ==
    \A i \in 1..Len(all_entries) :
        \A j \in 1..Len(all_entries[i].subjects) :
            LET label == all_entries[i].subjects[j]
            IN /\ label # <<>>
               /\ label[1] \notin WhiteSpace
               /\ label[Len(label)] \notin WhiteSpace

-----------------------------------------------------------------------------
(* Properties of the comparator *)

Loaded == cpc \in {"loaded", "ranked", "done"}
Ranked == cpc \in {"ranked", "done"}

\* C5: jaccard is |keys1 \cap keys2| / |keys1 \cup keys2| when the union is not
\* empty and 1 when both sets are empty; so it is 1 for two equal non-empty sets
\* and 0 when exactly one set is empty.
C5_Jaccard ==
    Loaded =>
        LET i == Cardinality(keys1 \cap keys2)
            u == Cardinality(keys1 \cup keys2)
        IN /\ jac[2] > 0
           /\ u = 0 => jac[1] = jac[2]
           /\ u > 0 => jac[1] * u = i * jac[2]
           /\ (u > 0 /\ keys1 = keys2) => jac[1] = jac[2]
           /\ (u > 0 /\ (keys1 = {} \/ keys2 = {})) => jac[1] = 0

\* both key sets are empty and the overlap is 1
C5_Witness ==
    /\ cpc = "loaded"
    /\ keys1 = {} /\ keys2 = {}
    /\ jac = <<1, 1>>

\* d is the subjects of own \ other in descending order of own's frequency, then
\* the subjects of own \cap other in descending order of the frequency gap
IsDistinctive(d, own, other, nOwn, nOther) ==
    LET e == Cardinality(own \ other)
        gap(k) == FracSub(nOwn[k], nOther[k])
    IN /\ Len(d) = Cardinality(own)
       /\ {d[i] : i \in 1..e} = own \ other
       /\ {d[i] : i \in (e + 1)..Len(d)} = own \cap other
       /\ \A i, j \in 1..e : i < j => ~FracLess(nOwn[d[i]], nOwn[d[j]])
       /\ \A i, j \in (e + 1)..Len(d) : i < j => ~FracLess(gap(d[i]), gap(d[j]))

\* C7: Distinctive-for-1 is the exclusive subjects of author 1 in descending order
\* of n1, followed by the shared subjects in descending order of n1 - n2, every
\* exclusive subject before every shared one; Distinctive-for-2 likewise with the
\* roles swapped.
C7_DistinctiveOrder ==
    Ranked => /\ IsDistinctive(diff1, keys1, keys2, n1, n2)
              /\ IsDistinctive(diff2, keys2, keys1, n2, n1)

\* one exclusive subject, then two shared ones in another order than the shared list
C7_Witness ==
    /\ cpc = "ranked"
    /\ Cardinality(keys1 \ keys2) = 1
    /\ Len(shared) = 2
    /\ SubSeq(diff1, 2, 3) = <<shared[2], shared[1]>>
    /\ SubSeq(diff2, 1, 2) = shared

SubjectsOf(rows) == [i \in 1..Len(rows) |-> rows[i][1]]
FirstN(list, n) == [i \in 1..Min(n, Len(list)) |-> list[i]]

\* C8 as stated: every table holds one row per entry of its list, in list order,
\* whatever the length and --top; the console shows the first top entries.
C8_TablesInFull ==
    cpc = "done" =>
        /\ SubjectsOf(rows_shared) = shared
        /\ SubjectsOf(rows_d1) = diff1
        /\ SubjectsOf(rows_d2) = diff2
        /\ top >= 0 => /\ console.shared = FirstN(shared, top)
                       /\ console.d1 = FirstN(diff1, top)
                       /\ console.d2 = FirstN(diff2, top)

\* C8 amended: the shared table holds one row per entry of the shared list; each
\* distinctive table holds one row per entry of the first max(top, 100) entries of
\* its list, in list order; the console shows the first top entries.
C8_TablesUpToLimit ==
    cpc = "done" =>
        LET limit == IF top > CsvFloor THEN top ELSE CsvFloor
        IN /\ SubjectsOf(rows_shared) = shared
           /\ SubjectsOf(rows_d1) = FirstN(diff1, limit)
           /\ SubjectsOf(rows_d2) = FirstN(diff2, limit)
           /\ \A i \in 1..Len(rows_d1) : rows_d1[i][2] = Get(c1, diff1[i])
           /\ top >= 0 => /\ console.shared = FirstN(shared, top)
                          /\ console.d1 = FirstN(diff1, top)
                          /\ console.d2 = FirstN(diff2, top)

\* a distinctive list longer than the limit, its table cut at the limit
C8_Witness ==
    /\ cpc = "done"
    /\ Len(diff1) = CsvFloor + 1
    /\ Len(rows_d1) = CsvFloor
    /\ top = 2
    /\ Len(console.d1) = 2

\* C9: loading never raises on a themes entry without count or subject, and a
\* document without a themes field maps to the empty SubjectCount.
C9_PermissiveLoad ==
    /\ cpc # "KeyError"
    /\ (Loaded /\ ~theme1.themes.has) => c1 = EmptyMap
    /\ (Loaded /\ ~theme2.themes.has) => c2 = EmptyMap

IsPermutationOf(list, S) == Len(list) = Cardinality(S) /\ Range(list) = S

\* C10: Distinctive-for-1 is a permutation of keys1, Distinctive-for-2 one of
\* keys2, the shared list one of keys1 \cap keys2, and the report's shared count
\* is |keys1 \cap keys2|.
C10_Permutations ==
    /\ Ranked => /\ IsPermutationOf(diff1, keys1)
                 /\ IsPermutationOf(diff2, keys2)
                 /\ IsPermutationOf(shared, keys1 \cap keys2)
    /\ cpc = "done" => summary.shared = Cardinality(keys1 \cap keys2)

\* three subjects for author 1, two of them shared with author 2
C10_Witness ==
    /\ cpc = "done"
    /\ Len(diff1) = 3
    /\ Len(diff2) = 2
    /\ Len(shared) = 2
    /\ summary.shared = 2

=============================================================================
